---------------------------- MODULE Spec2Model ----------------------------
(***************************************************************************)
(* SIM808Controller (src/sim808_controller.py) and its callers in          *)
(* src/app.py, as a state machine.                                         *)
(*                                                                         *)
(* Execution contexts: the caller threads of the Command API (an HTTP      *)
(* request handler "api" and app.py's status_polling_thread "poller") and  *)
(* the monitor threads created by start_monitoring.  The serial line is    *)
(* one device with one input queue (rx) shared by every handle opened on   *)
(* it; the modem answers the commands written to it and emits unsolicited  *)
(* lines on its own.                                                       *)
(*                                                                         *)
(* Strings the code inspects character by character (phone numbers, the    *)
(* arguments of dial and send_dtmf) are sequences of characters.  Python's *)
(* None is the string "None" for statuses, <<"None">> for numbers and 0    *)
(* for object references (serial_conn, monitor_thread).                    *)
(***************************************************************************)
EXTENDS Naturals, Sequences, FiniteSets

\* ---- bounds of the model ----
MaxCalls == 2          \* Command API calls started in one behaviour
MaxEmit == 1           \* unsolicited lines the modem emits in one behaviour
MaxHandles == 2        \* serial.Serial objects created in one behaviour
MaxThreads == 2        \* monitor threads created in one behaviour
MaxDialLen == 3        \* length of the strings given to dial
MaxDtmfLen == 2        \* length of the strings given to send_dtmf
MaxLines == 3          \* call notifications the modem emits in one behaviour

Callers == {"api", "poller"}
Threads == 1..MaxThreads
Observers == {1, 2}
Ports == {"None", "/dev/ttyUSB0"}

\* ---- phone numbers ----
Quote == "\""
NoNumber == <<"None">>
PlainNumber == <<"+", "1", "5", "5", "5", "1", "2", "3", "4", "5", "6", "7">>
Quoted(s) == <<Quote>> \o s \o <<Quote>>
\* the number fields the modem sends: the number between double quotes
Numbers == {Quoted(PlainNumber)}

\* strip('"') that strips nothing
StripNothing(s) == s
\* str.strip('"'): the quotes at both ends are removed
Strip(s) ==
    LET kept == {i \in 1..Len(s) : s[i] # Quote}
    IN  IF kept = {} THEN <<>>
        ELSE SubSeq(s, CHOOSE i \in kept : \A j \in kept : i <= j,
                       CHOOSE i \in kept : \A j \in kept : j <= i)

VARIABLES
    port,                   \* self.port
    serial_conn,            \* self.serial_conn: a handle, 0 for None
    is_connected,           \* self.is_connected
    monitor_thread,         \* self.monitor_thread: a thread, 0 for None
    monitoring,             \* self.monitoring
    status_callbacks,       \* self.status_callbacks, in registration order
    current_call_status,    \* self.current_call_status
    incoming_call_number,   \* self.incoming_call_number
    opened,                 \* the serial.Serial objects that are open
    broken,                 \* handles whose device failed: every I/O on them raises
    nhandles,               \* serial.Serial objects created so far
    rx,                     \* the device's input queue: lines the modem has sent
    tx,                     \* commands written to the device, not yet answered
    emitted,                \* unsolicited lines emitted so far
    calls,                  \* Command API calls started so far
    frame,                  \* per caller: position and locals of its call
    mon                     \* per monitor thread: position and locals of _monitor_loop

ctl == <<serial_conn, is_connected, monitor_thread, monitoring,
         current_call_status, incoming_call_number, opened, mon>>
env == <<broken, rx, tx, emitted>>
vars == <<port, serial_conn, is_connected, monitor_thread, monitoring,
          status_callbacks, current_call_status, incoming_call_number,
          opened, broken, nhandles, rx, tx, emitted, calls, frame, mon>>

\* ---- lines on the wire ----
\* A line is [k, n, st, re, dir, mpty]: its kind, the number field it carries as
\* sent, the <stat>, <dir> and <mpty> codes of a +CLCC line, and (re) the caller
\* whose command it answers, "-" when unsolicited.  re is bookkeeping of the
\* model: no operation reads it.  Every line the modem sends matches one rule of
\* _process_unsolicited at most.
Line(k, n, st, re) ==
    [k |-> k, n |-> n, st |-> st, re |-> re, dir |-> "None", mpty |-> "None"]
\* "+CLCC: 1,<dir>,<stat>,0,<mpty>[,<number>,129]"
ClccLine(dir, st, mpty, n, re) ==
    [k |-> "+CLCC", n |-> n, st |-> st, re |-> re, dir |-> dir, mpty |-> mpty]
NotifyKinds == {"RING", "+CLIP", "NO CARRIER", "BUSY", "+CLCC"}
IsNotification(l) == l.k \in NotifyKinds /\ l.re = "-"
Unsolicited ==
    {Line("RING", NoNumber, "None", "-"), Line("NO CARRIER", NoNumber, "None", "-"),
     Line("BUSY", NoNumber, "None", "-")}
    \cup {Line("+CLIP", n, "None", "-") : n \in Numbers}
    \cup {ClccLine("0", "0", "0", n, "-") : n \in Numbers \cup {NoNumber}}
\* the notifications of a call: an incoming call rings, is identified, is listed
\* by +CLCC with or without its number, ends
CallLines ==
    {Line("RING", NoNumber, "None", "-"), Line("NO CARRIER", NoNumber, "None", "-"),
     Line("BUSY", NoNumber, "None", "-"),
     Line("+CLIP", Quoted(PlainNumber), "None", "-"),
     ClccLine("0", "0", "0", Quoted(PlainNumber), "-"),
     ClccLine("1", "4", "0", NoNumber, "-")}

HasTok(text, k) == \E i \in 1..Len(text) : text[i].k = k

\* ---- values returned to callers ----
NoCall == [id |-> 0, direction |-> "None", status |-> "None", number |-> NoNumber,
           mpty |-> FALSE]
ResNone == [v |-> "None", text |-> <<>>, call |-> NoCall]
ResTrue == [v |-> "True", text |-> <<>>, call |-> NoCall]
ResFalse == [v |-> "False", text |-> <<>>, call |-> NoCall]
ResText(text) == [v |-> "str", text |-> text, call |-> NoCall]
ResCall(c) == [v |-> "dict", text |-> <<>>, call |-> c]
\* Python truthiness of what send_command returns: None and "" are falsy.
Truthy(r) == r.v = "str" /\ r.text # <<>>

\* ---- CLCC decoding ----
\* the table with code 3 named alerting
status_map_alerting(st) ==
    CASE st = "0" -> "active" [] st = "1" -> "held" [] st = "2" -> "dialing"
      [] st = "3" -> "alerting" [] st = "4" -> "incoming" [] st = "5" -> "waiting"
      [] OTHER -> "unknown"
status_map(st) ==
    CASE st = "0" -> "active" [] st = "1" -> "held" [] st = "2" -> "dialing"
      [] st = "3" -> "ringing" [] st = "4" -> "incoming" [] st = "5" -> "waiting"
      [] OTHER -> "unknown"
\* The first +CLCC record of a text, as re.search finds it; 0 when there is none.
ClccIndex(text) ==
    IF HasTok(text, "+CLCC")
    THEN CHOOSE i \in 1..Len(text) :
            text[i].k = "+CLCC" /\ \A j \in 1..(i - 1) : text[j].k # "+CLCC"
    ELSE 0
direction_map(dir) ==
    CASE dir = "0" -> "outgoing" [] dir = "1" -> "incoming" [] OTHER -> "unknown"
\* lines 236-261 and 366-392; the records on this wire all have <id> 1 and
\* <mode> 0.  number is group 6 of the match, as it stands on the line.
ParseClcc(l) == [id |-> 1, direction |-> direction_map(l.dir),
                 status |-> status_map(l.st), number |-> l.n, mpty |-> l.mpty = "1"]

\* _process_unsolicited has its own copy of the decoding: lines 366-392
unsolicited_status_map(st) ==
    CASE st = "0" -> "active" [] st = "1" -> "held" [] st = "2" -> "dialing"
      [] st = "3" -> "ringing" [] st = "4" -> "incoming" [] st = "5" -> "waiting"
      [] OTHER -> "unknown"
unsolicited_direction_map(dir) ==
    CASE dir = "0" -> "outgoing" [] dir = "1" -> "incoming" [] OTHER -> "unknown"
\* the copy, decoding every direction code as outgoing
ParseClccLineOutgoing(l) ==
    [id |-> 1, direction |-> "outgoing",
     status |-> unsolicited_status_map(l.st), number |-> l.n, mpty |-> l.mpty = "1"]
\* the call_status dictionary of lines 385-392
ParseClccLine(l) ==
    [id |-> 1, direction |-> unsolicited_direction_map(l.dir),
     status |-> unsolicited_status_map(l.st), number |-> l.n, mpty |-> l.mpty = "1"]

\* ---- frames ----
\* A caller's frame: pc is its position (idle, open, send, wait, join, done), op the
\* Command API call it is in and stage the send_command of connect it is at
\* (AT, CLIP); cmd, arg, expected, response are send_command's locals, sent says
\* that it has written its command, exc that its except clause ran; result is
\* what the call returned; mine is the handle connect opened; pre is
\* is_connected as the call found it; port is connect's argument; input is the
\* string dial or send_dtmf was given; cb is the callback register or unregister
\* was given.
IdleFrame == [pc |-> "idle", op |-> "none", stage |-> "none", cmd |-> "none",
              arg |-> <<>>, expected |-> "None", response |-> <<>>,
              result |-> ResNone, exc |-> FALSE, mine |-> 0, pre |-> FALSE,
              sent |-> FALSE, port |-> "None", input |-> <<>>, cb |-> 0]
\* A monitor thread: pc is its position (unborn, start, loop, lines, deliver,
\* backoff, exited), buffer the lines read and not yet processed, line the kind
\* of the line _process_unsolicited is processing, ev and data the event being
\* dispatched and the number it carries, idx the observer being invoked, snap
\* the Call State the line's rule wrote.
\* call is the dictionary a call_status event carries.  Of the dispatch in
\* progress, began is the list of observers as it was when the for loop started,
\* invoked the observers invoked so far, in order, and caught the number of
\* observers whose exception was caught.
UnbornThread == [pc |-> "unborn", buffer |-> <<>>, line |-> "none", ev |-> "none",
                 data |-> NoNumber, call |-> NoCall, idx |-> 0,
                 snap |-> <<"None", NoNumber>>, began |-> <<>>, invoked |-> <<>>,
                 caught |-> 0]

\* __init__
Init ==
    /\ port = "None"
    /\ serial_conn = 0
    /\ is_connected = FALSE
    /\ monitor_thread = 0
    /\ monitoring = FALSE
    /\ status_callbacks = <<>>
    /\ current_call_status = "None"
    /\ incoming_call_number = NoNumber
    /\ opened = {}
    /\ broken = {}
    /\ nhandles = 0
    /\ rx = <<>>
    /\ tx = <<>>
    /\ emitted = 0
    /\ calls = 0
    /\ frame = [t \in Callers |-> IdleFrame]
    /\ mon = [m \in Threads |-> UnbornThread]

\* The state connect() leaves on its success path (lines 64-70): the port open,
\* is_connected set, the monitor thread just started by start_monitoring; app.py
\* has registered its status_callback (line 40).
InitLive ==
    /\ port = "/dev/ttyUSB0"
    /\ serial_conn = 1
    /\ is_connected = TRUE
    /\ monitor_thread = 1
    /\ monitoring = TRUE
    /\ status_callbacks = <<1>>
    /\ current_call_status = "None"
    /\ incoming_call_number = NoNumber
    /\ opened = {1}
    /\ broken = {}
    /\ nhandles = 1
    /\ rx = <<>>
    /\ tx = <<>>
    /\ emitted = 0
    /\ calls = 0
    /\ frame = [t \in Callers |-> IdleFrame]
    /\ mon = [m \in Threads |->
                IF m = 1 THEN [UnbornThread EXCEPT !.pc = "start"] ELSE UnbornThread]

\* ---- send_command and what its callers do with its return value ----
Usable(h) == h # 0 /\ h \in opened /\ h \notin broken

NewThread ==
    CHOOSE m \in Threads : mon[m].pc = "unborn" /\ \A j \in 1..(m - 1) : mon[j].pc # "unborn"

\* start_monitoring without the test of line 291
start_monitoring_unguarded ==
    /\ monitoring' = TRUE
    /\ monitor_thread' = NewThread
    /\ mon' = [mon EXCEPT ![NewThread] = [UnbornThread EXCEPT !.pc = "start"]]
start_monitoring ==
    IF monitoring
    THEN UNCHANGED <<monitoring, monitor_thread, mon>>
    ELSE /\ monitoring' = TRUE
         /\ monitor_thread' = NewThread
         /\ mon' = [mon EXCEPT ![NewThread] = [UnbornThread EXCEPT !.pc = "start"]]

Done(t, f, r) == frame' = [frame EXCEPT ![t] = [f EXCEPT !.pc = "done", !.result = r]]

\* lines 132-139: the value send_command returns for a finished read loop
SendResult(expected, text) ==
    IF expected # "None"
    THEN IF HasTok(text, expected) THEN ResText(text) ELSE ResNone
    ELSE ResText(text)

\* The caller f.op of send_command continues with its return value val.
Resolve(t, f, val) ==
    LET ok == Truthy(val) /\ HasTok(val.text, "OK") IN
    CASE f.op = "send" ->
            /\ Done(t, f, val)
            /\ UNCHANGED ctl
      [] f.op = "dial" ->
            /\ current_call_status' = IF ok THEN "dialing" ELSE current_call_status
            /\ Done(t, f, IF ok THEN ResTrue ELSE ResFalse)
            /\ UNCHANGED <<serial_conn, is_connected, monitor_thread, monitoring,
                           incoming_call_number, opened, mon>>
      [] f.op = "hangup" ->
            /\ current_call_status' = IF ok THEN "None" ELSE current_call_status
            /\ incoming_call_number' = IF ok THEN NoNumber ELSE incoming_call_number
            /\ Done(t, f, IF ok THEN ResTrue ELSE ResFalse)
            /\ UNCHANGED <<serial_conn, is_connected, monitor_thread, monitoring,
                           opened, mon>>
      [] f.op = "answer" ->
            /\ current_call_status' = IF ok THEN "active" ELSE current_call_status
            /\ Done(t, f, IF ok THEN ResTrue ELSE ResFalse)
            /\ UNCHANGED <<serial_conn, is_connected, monitor_thread, monitoring,
                           incoming_call_number, opened, mon>>
      [] f.op = "send_dtmf" ->
            /\ Done(t, f, IF Truthy(val)
                          THEN IF HasTok(val.text, "OK") THEN ResTrue ELSE ResFalse
                          ELSE val)
            /\ UNCHANGED ctl
      [] f.op = "get_call_status" ->
            /\ Done(t, f, IF Truthy(val) /\ ClccIndex(val.text) # 0
                          THEN ResCall(ParseClcc(val.text[ClccIndex(val.text)]))
                          ELSE ResNone)
            /\ UNCHANGED ctl
      [] f.op = "connect" /\ f.stage = "AT" ->
            IF Truthy(val)
            THEN /\ is_connected' = TRUE
                 /\ frame' = [frame EXCEPT ![t] =
                        [f EXCEPT !.pc = "send", !.stage = "CLIP", !.cmd = "AT+CLIP=1",
                                  !.expected = "None", !.sent = FALSE]]
                 /\ UNCHANGED <<serial_conn, monitor_thread, monitoring,
                                current_call_status, incoming_call_number, opened, mon>>
            ELSE /\ opened' = opened \ {serial_conn}
                 /\ serial_conn' = 0
                 /\ Done(t, f, ResFalse)
                 /\ UNCHANGED <<is_connected, monitor_thread, monitoring,
                                current_call_status, incoming_call_number, mon>>
      [] f.op = "connect" /\ f.stage = "CLIP" ->
            /\ start_monitoring
            /\ Done(t, f, ResTrue)
            /\ UNCHANGED <<serial_conn, is_connected, current_call_status,
                           incoming_call_number, opened>>

\* line 103: the guard
SendNotConnected(t) ==
    /\ frame[t].pc = "send"
    /\ ~is_connected \/ serial_conn = 0
    /\ Resolve(t, frame[t], ResNone)
    /\ UNCHANGED <<port, status_callbacks, nhandles, calls, env>>

\* lines 109-113 raise (closed or failed port), caught at 141
SendRaises(t) ==
    /\ frame[t].pc = "send"
    /\ is_connected /\ serial_conn # 0
    /\ ~Usable(serial_conn)
    /\ Resolve(t, [frame[t] EXCEPT !.exc = TRUE], ResNone)
    /\ UNCHANGED <<port, status_callbacks, nhandles, calls, env>>

\* lines 109-119: reset_input_buffer, write, enter the read loop
SendWrite(t) ==
    /\ frame[t].pc = "send"
    /\ is_connected /\ Usable(serial_conn)
    /\ rx' = <<>>
    /\ tx' = Append(tx, [by |-> t, cmd |-> frame[t].cmd, arg |-> frame[t].arg])
    /\ frame' = [frame EXCEPT ![t].pc = "wait", ![t].response = <<>>,
                              ![t].sent = TRUE]
    /\ UNCHANGED <<port, status_callbacks, nhandles, calls, broken, emitted, ctl>>

\* lines 122-126: one pass of the read loop that finds bytes waiting
SendRead(t) ==
    /\ frame[t].pc = "wait"
    /\ Usable(serial_conn)
    /\ rx # <<>>
    /\ rx' = <<>>
    /\ LET text == frame[t].response \o rx
           f == [frame[t] EXCEPT !.response = text]
       IN  IF HasTok(text, "OK") \/ HasTok(text, "ERROR")
           THEN Resolve(t, f, SendResult(f.expected, text))
           ELSE frame' = [frame EXCEPT ![t] = f] /\ UNCHANGED ctl
    /\ UNCHANGED <<port, status_callbacks, nhandles, calls, broken, tx, emitted>>

\* line 122 or 123 raises (port closed, failed or gone), caught at 141
SendReadRaises(t) ==
    /\ frame[t].pc = "wait"
    /\ ~Usable(serial_conn)
    /\ Resolve(t, [frame[t] EXCEPT !.exc = TRUE], ResNone)
    /\ UNCHANGED <<port, status_callbacks, nhandles, calls, env>>

\* line 121: read_timeout has elapsed
SendTimeout(t) ==
    /\ frame[t].pc = "wait"
    /\ Resolve(t, frame[t], SendResult(frame[t].expected, frame[t].response))
    /\ UNCHANGED <<port, status_callbacks, nhandles, calls, env>>

\* ---- the Command API ----
CanCall(t) == frame[t].pc \in {"idle", "done"} /\ calls < MaxCalls
Enter(t, f) ==
    /\ frame' = [frame EXCEPT ![t] = [f EXCEPT !.pre = is_connected]]
    /\ calls' = calls + 1

\* send_command called directly (the raw command of the Command API)
CallSend(t, expected) ==
    /\ CanCall(t) /\ t = "api"
    /\ Enter(t, [IdleFrame EXCEPT !.pc = "send", !.op = "send", !.cmd = "AT",
                                  !.expected = expected])
    /\ UNCHANGED <<port, status_callbacks, nhandles, env, ctl>>

\* re.sub(r'[^\d+]', '', number)
DigitChars == {"0", "1", "2", "3", "4", "5", "6", "7", "8", "9"}
KeptByDial(c) == c \in DigitChars \cup {"+"}
Sanitize(number) == SelectSeq(number, KeptByDial)
DialInputs == {<<>>, <<"5", "5", "5">>}

\* The strings of at most n characters of A.
Strings(A, n) == UNION {[1..k -> A] : k \in 0..n}
FormattedNumber == <<"+", "1", " ", "(", "5", "5", "5", ")", " ", "1", "2", "3", "-",
                     "4", "5", "6", "7">>
DialAlphabet == {"+", "1", " ", "a"}
DialStrings == Strings(DialAlphabet, MaxDialLen) \cup {FormattedNumber}
DtmfAlphabet == {"0", "1", "2", "3", "4", "5", "6", "7", "8", "9", "*", "#",
                 "A", "B", "C", "D", "a", "b", "c", "d", "e", "x"}
\* every single character of the alphabet, and the strings of other lengths
\* over three of them
DtmfRepeated == {"5", "a", "x"}
DtmfStrings == {<<c>> : c \in DtmfAlphabet} \cup Strings(DtmfRepeated, MaxDtmfLen)

\* dial, line 155: an empty number is refused
DialRefused(t, number) ==
    /\ CanCall(t) /\ t = "api"
    /\ number = <<>>
    /\ Enter(t, [IdleFrame EXCEPT !.pc = "done", !.op = "dial", !.result = ResFalse])
    /\ UNCHANGED <<port, status_callbacks, nhandles, env, ctl>>

\* dial, lines 159-162
CallDial(t, number) ==
    /\ CanCall(t) /\ t = "api"
    /\ number # <<>>
    /\ Enter(t, [IdleFrame EXCEPT !.pc = "send", !.op = "dial", !.cmd = "ATD",
                                  !.arg = Sanitize(number), !.input = number])
    /\ UNCHANGED <<port, status_callbacks, nhandles, env, ctl>>

\* ---- send_dtmf ----
\* str.upper, on the characters send_dtmf is given here
upper(c) ==
    CASE c = "a" -> "A" [] c = "b" -> "B" [] c = "c" -> "C" [] c = "d" -> "D"
      [] c = "e" -> "E" [] c = "x" -> "X" [] OTHER -> c
UpperStr(s) == [i \in 1..Len(s) |-> upper(s[i])]
\* x in w, for strings: x occurs in w as a substring
Contains(w, x) == \E i \in 0..(Len(w) - Len(x)) : SubSeq(w, i + 1, i + Len(x)) = x
valid_digits == <<"0", "1", "2", "3", "4", "5", "6", "7", "8", "9", "*", "#",
                  "A", "B", "C", "D">>

\* lines 206-212 without the upper() of line 211
DtmfValidAsGiven(digit) ==
    /\ digit # <<>>
    /\ Len(digit) = 1
    /\ Contains(valid_digits, digit)
\* lines 206-212: the two validation tests of send_dtmf
DtmfValid(digit) ==
    /\ digit # <<>>
    /\ Len(digit) = 1
    /\ Contains(valid_digits, UpperStr(digit))

\* send_dtmf, lines 207 and 212: validation fails
DtmfRefused(t, digit) ==
    /\ CanCall(t) /\ t = "api"
    /\ ~DtmfValid(digit)
    /\ Enter(t, [IdleFrame EXCEPT !.pc = "done", !.op = "send_dtmf",
                                  !.result = ResFalse, !.input = digit])
    /\ UNCHANGED <<port, status_callbacks, nhandles, env, ctl>>

\* send_dtmf, lines 214-215: the command is built from the digit as given
CallSendDtmf(t, digit) ==
    /\ CanCall(t) /\ t = "api"
    /\ DtmfValid(digit)
    /\ Enter(t, [IdleFrame EXCEPT !.pc = "send", !.op = "send_dtmf",
                                  !.cmd = "AT+VTS", !.arg = digit, !.input = digit])
    /\ UNCHANGED <<port, status_callbacks, nhandles, env, ctl>>

CallHangup(t) ==
    /\ CanCall(t) /\ t = "api"
    /\ Enter(t, [IdleFrame EXCEPT !.pc = "send", !.op = "hangup", !.cmd = "ATH"])
    /\ UNCHANGED <<port, status_callbacks, nhandles, env, ctl>>

CallAnswer(t) ==
    /\ CanCall(t) /\ t = "api"
    /\ Enter(t, [IdleFrame EXCEPT !.pc = "send", !.op = "answer", !.cmd = "ATA"])
    /\ UNCHANGED <<port, status_callbacks, nhandles, env, ctl>>

\* get_call_status; app.py's poller calls it only while is_connected (line 291)
CallGetCallStatus(t) ==
    /\ CanCall(t)
    /\ t = "poller" => is_connected
    /\ Enter(t, [IdleFrame EXCEPT !.pc = "send", !.op = "get_call_status",
                                  !.cmd = "AT+CLCC"])
    /\ UNCHANGED <<port, status_callbacks, nhandles, env, ctl>>

\* register_status_callback without the test of line 273
register_always_appends(t, o) ==
    /\ CanCall(t) /\ t = "api"
    /\ status_callbacks' = Append(status_callbacks, o)
    /\ Enter(t, [IdleFrame EXCEPT !.pc = "done", !.op = "register", !.cb = o])
    /\ UNCHANGED <<port, nhandles, env, ctl>>
register_status_callback(t, o) ==
    /\ CanCall(t) /\ t = "api"
    /\ status_callbacks' = IF \E i \in 1..Len(status_callbacks) : status_callbacks[i] = o
                           THEN status_callbacks
                           ELSE Append(status_callbacks, o)
    /\ Enter(t, [IdleFrame EXCEPT !.pc = "done", !.op = "register", !.cb = o])
    /\ UNCHANGED <<port, nhandles, env, ctl>>

\* list.remove: the first occurrence
RemoveFirst(q, o) ==
    LET i == CHOOSE i \in 1..Len(q) : q[i] = o /\ \A j \in 1..(i - 1) : q[j] # o
    IN  SubSeq(q, 1, i - 1) \o SubSeq(q, i + 1, Len(q))

unregister_status_callback(t, o) ==
    /\ CanCall(t) /\ t = "api"
    /\ status_callbacks' = IF \E i \in 1..Len(status_callbacks) : status_callbacks[i] = o
                           THEN RemoveFirst(status_callbacks, o)
                           ELSE status_callbacks
    /\ Enter(t, [IdleFrame EXCEPT !.pc = "done", !.op = "unregister", !.cb = o])
    /\ UNCHANGED <<port, nhandles, env, ctl>>

\* ---- connect ----
\* connect(p) is entered; app.py's connect_serial never passes an empty port.
CallConnect(t, p) ==
    /\ CanCall(t) /\ t = "api"
    /\ Enter(t, [IdleFrame EXCEPT !.pc = "open", !.op = "connect", !.port = p])
    /\ UNCHANGED <<port, status_callbacks, nhandles, env, ctl>>

PortFor(p) == IF p # "None" THEN p ELSE port

\* lines 46-51
ConnectNoPort(t) ==
    /\ frame[t].pc = "open"
    /\ PortFor(frame[t].port) = "None"
    /\ frame' = [frame EXCEPT ![t].pc = "done", ![t].result = ResFalse,
                              ![t].pre = is_connected]
    /\ UNCHANGED <<port, status_callbacks, nhandles, calls, env, ctl>>

\* serial.Serial(...) raises SerialException: lines 77-80
ConnectOpenFails(t) ==
    /\ frame[t].pc = "open"
    /\ PortFor(frame[t].port) # "None"
    /\ port' = PortFor(frame[t].port)
    /\ is_connected' = FALSE
    /\ frame' = [frame EXCEPT ![t].pc = "done", ![t].result = ResFalse,
                              ![t].pre = is_connected]
    /\ UNCHANGED <<serial_conn, monitor_thread, monitoring, current_call_status,
                   incoming_call_number, opened, mon, status_callbacks, nhandles,
                   calls, env>>

\* lines 54-63: the port opens; the handshake is next
ConnectOpens(t) ==
    /\ frame[t].pc = "open"
    /\ PortFor(frame[t].port) # "None"
    /\ nhandles < MaxHandles
    /\ \E m \in Threads : mon[m].pc = "unborn"
    /\ port' = PortFor(frame[t].port)
    /\ nhandles' = nhandles + 1
    /\ serial_conn' = nhandles + 1
    /\ opened' = opened \cup {nhandles + 1}
    /\ frame' = [frame EXCEPT ![t].pc = "send", ![t].stage = "AT", ![t].cmd = "AT",
                              ![t].expected = "OK", ![t].mine = nhandles + 1,
                              ![t].pre = is_connected]
    /\ UNCHANGED <<is_connected, monitor_thread, monitoring, current_call_status,
                   incoming_call_number, mon, status_callbacks, calls, env>>

\* ---- disconnect ----
\* stop_monitoring, line 300; the join of line 302 follows
CallDisconnect(t) ==
    /\ CanCall(t) /\ t = "api"
    /\ monitoring' = FALSE
    /\ Enter(t, [IdleFrame EXCEPT !.pc = "join", !.op = "disconnect"])
    /\ UNCHANGED <<port, status_callbacks, nhandles, env, serial_conn, is_connected,
                   monitor_thread, current_call_status, incoming_call_number,
                   opened, mon>>

\* app.py connect_serial, lines 83-87: disconnect first when connected
CallConnectSerial(t, p) ==
    /\ CanCall(t) /\ t = "api"
    /\ p # "None"
    /\ IF is_connected
       THEN /\ monitoring' = FALSE
            /\ Enter(t, [IdleFrame EXCEPT !.pc = "join", !.op = "disconnect",
                                          !.stage = "connect_serial", !.port = p])
       ELSE /\ Enter(t, [IdleFrame EXCEPT !.pc = "open", !.op = "connect", !.port = p])
            /\ UNCHANGED monitoring
    /\ UNCHANGED <<port, status_callbacks, nhandles, env, serial_conn, is_connected,
                   monitor_thread, current_call_status, incoming_call_number,
                   opened, mon>>

\* lines 303 and 85-88, after the join; connect_serial goes on to connect
Disconnected(t) ==
    /\ monitor_thread' = 0
    /\ opened' = opened \ {serial_conn}
    /\ serial_conn' = 0
    /\ is_connected' = FALSE
    /\ frame' = [frame EXCEPT ![t] =
            IF frame[t].stage = "connect_serial"
            THEN [@ EXCEPT !.pc = "open", !.op = "connect", !.stage = "none"]
            ELSE [@ EXCEPT !.pc = "done"]]
    /\ UNCHANGED <<port, status_callbacks, nhandles, calls, env, monitoring,
                   current_call_status, incoming_call_number, mon>>

\* stop_monitoring, lines 301-302: nothing to wait for
Joined == IF monitor_thread = 0 THEN TRUE ELSE mon[monitor_thread].pc = "exited"

\* join(timeout=2) returns because the thread has ended (or there is none)
JoinExited(t) ==
    /\ frame[t].pc = "join"
    /\ Joined
    /\ Disconnected(t)

\* join(timeout=2) returns because two seconds have passed
JoinTimeout(t) ==
    /\ frame[t].pc = "join"
    /\ ~Joined
    /\ Disconnected(t)

\* ---- _process_unsolicited: the state a line leaves and the event it raises ----
\* the rules, with BUSY leaving the status as it is
StatusAfterBusyKept(l) ==
    CASE l.k \in {"RING", "+CLIP"} -> "incoming"
      [] l.k = "NO CARRIER" -> "None"
      [] l.k = "+CLCC" -> ParseClccLine(l).status
      [] OTHER -> current_call_status
StatusAfter(l) ==
    CASE l.k \in {"RING", "+CLIP"} -> "incoming"
      [] l.k \in {"NO CARRIER", "BUSY"} -> "None"
      [] l.k = "+CLCC" -> ParseClccLine(l).status
      [] OTHER -> current_call_status
NumberAfter(l) ==
    CASE l.k = "+CLIP" -> Strip(l.n)
      [] l.k = "NO CARRIER" -> NoNumber
      [] OTHER -> incoming_call_number
EventOf(l) ==
    CASE l.k \in {"RING", "+CLIP"} -> "incoming_call"
      [] l.k = "NO CARRIER" -> "call_ended"
      [] l.k = "BUSY" -> "call_busy"
      [] l.k = "+CLCC" -> "call_status"
      [] OTHER -> "none"
\* the number in the event's data
EventData(l) ==
    CASE l.k = "RING" -> incoming_call_number
      [] l.k = "+CLIP" -> Strip(l.n)
      [] l.k = "+CLCC" -> ParseClccLine(l).number
      [] OTHER -> NoNumber
\* the dictionary in a call_status event's data
EventCall(l) == IF l.k = "+CLCC" THEN ParseClccLine(l) ELSE NoCall

\* ---- _monitor_loop ----
\* lines 307-310
MonStart(m) ==
    /\ mon[m].pc = "start"
    /\ mon' = [mon EXCEPT ![m].pc = IF serial_conn = 0 THEN "exited" ELSE "loop"]
    /\ UNCHANGED <<port, status_callbacks, nhandles, calls, env, frame, serial_conn,
                   is_connected, monitor_thread, monitoring, current_call_status,
                   incoming_call_number, opened>>

\* line 312: the loop condition fails
MonExit(m) ==
    /\ mon[m].pc = "loop"
    /\ ~(monitoring /\ is_connected)
    /\ mon' = [mon EXCEPT ![m].pc = "exited"]
    /\ UNCHANGED <<port, status_callbacks, nhandles, calls, env, frame, serial_conn,
                   is_connected, monitor_thread, monitoring, current_call_status,
                   incoming_call_number, opened>>

\* lines 314-315: bytes are waiting and are read into the buffer
MonRead(m) ==
    /\ mon[m].pc = "loop"
    /\ monitoring /\ is_connected
    /\ Usable(serial_conn)
    /\ rx # <<>>
    /\ rx' = <<>>
    /\ mon' = [mon EXCEPT ![m].pc = "lines", ![m].buffer = mon[m].buffer \o rx]
    /\ UNCHANGED <<port, status_callbacks, nhandles, calls, broken, tx, emitted, frame,
                   serial_conn, is_connected, monitor_thread, monitoring,
                   current_call_status, incoming_call_number, opened>>

\* line 314 raises (port closed, failed or gone): lines 327-329
MonRaises(m) ==
    /\ mon[m].pc = "loop"
    /\ monitoring /\ is_connected
    /\ ~Usable(serial_conn)
    /\ mon' = [mon EXCEPT ![m].pc = "backoff"]
    /\ UNCHANGED <<port, status_callbacks, nhandles, calls, env, frame, serial_conn,
                   is_connected, monitor_thread, monitoring, current_call_status,
                   incoming_call_number, opened>>

\* line 329: the sleep ends
MonResume(m) ==
    /\ mon[m].pc = "backoff"
    /\ mon' = [mon EXCEPT ![m].pc = "loop"]
    /\ UNCHANGED <<port, status_callbacks, nhandles, calls, env, frame, serial_conn,
                   is_connected, monitor_thread, monitoring, current_call_status,
                   incoming_call_number, opened>>

AfterLine(rest) == IF rest = <<>> THEN "loop" ELSE "lines"

\* lines 318-323 and 331-395: the next line of the buffer is processed; the state
\* is written and _notify_callbacks invokes the first observer
MonLine(m) ==
    /\ mon[m].pc = "lines"
    /\ LET l == Head(mon[m].buffer)
           rest == Tail(mon[m].buffer)
       IN  /\ current_call_status' = StatusAfter(l)
           /\ incoming_call_number' = NumberAfter(l)
           /\ mon' = [mon EXCEPT ![m] =
                IF EventOf(l) # "none" /\ status_callbacks # <<>>
                THEN [pc |-> "deliver", buffer |-> rest, line |-> l.k,
                      ev |-> EventOf(l), data |-> EventData(l),
                      call |-> EventCall(l), idx |-> 1,
                      snap |-> <<StatusAfter(l), NumberAfter(l)>>,
                      began |-> status_callbacks,
                      invoked |-> <<status_callbacks[1]>>, caught |-> 0]
                ELSE [@ EXCEPT !.pc = AfterLine(rest), !.buffer = rest]]
    /\ UNCHANGED <<port, status_callbacks, nhandles, calls, env, frame, serial_conn,
                   is_connected, monitor_thread, monitoring, opened>>

\* lines 283-287: the for loop goes on over the list as it now is, to the next
\* observer or to its end
NextObserver(m, errors) ==
    /\ mon' = [mon EXCEPT ![m] =
            IF mon[m].idx + 1 <= Len(status_callbacks)
            THEN [@ EXCEPT !.idx = @ + 1,
                           !.invoked = Append(@, status_callbacks[mon[m].idx + 1]),
                           !.caught = errors]
            ELSE [@ EXCEPT !.pc = AfterLine(mon[m].buffer), !.line = "none",
                           !.ev = "none", !.data = NoNumber, !.call = NoCall,
                           !.idx = 0,
                           !.snap = <<"None", NoNumber>>, !.began = <<>>,
                           !.invoked = <<>>, !.caught = 0]]
    /\ UNCHANGED <<port, status_callbacks, nhandles, calls, env, frame, serial_conn,
                   is_connected, monitor_thread, monitoring, current_call_status,
                   incoming_call_number, opened>>

\* line 285: the observer being invoked returns
MonDelivered(m) ==
    /\ mon[m].pc = "deliver"
    /\ NextObserver(m, mon[m].caught)

\* the exception of an observer leaves _notify_callbacks and is caught by the
\* loop, at line 327
ObserverRaisesUncaught(m) ==
    /\ mon[m].pc = "deliver"
    /\ mon' = [mon EXCEPT ![m].pc = "backoff"]
    /\ UNCHANGED <<port, status_callbacks, nhandles, calls, env, frame, serial_conn,
                   is_connected, monitor_thread, monitoring, current_call_status,
                   incoming_call_number, opened>>
\* lines 286-287: the observer being invoked raises, the exception is caught and
\* logged
ObserverRaises(m) ==
    /\ mon[m].pc = "deliver"
    /\ NextObserver(m, mon[m].caught + 1)

\* the observer being invoked calls register_status_callback(o)
CallbackRegisters(m, o) ==
    /\ mon[m].pc = "deliver"
    /\ \A i \in 1..Len(status_callbacks) : status_callbacks[i] # o
    /\ status_callbacks' = Append(status_callbacks, o)
    /\ UNCHANGED <<port, nhandles, calls, env, frame, ctl>>

\* the observer being invoked calls unregister_status_callback(o)
CallbackUnregisters(m, o) ==
    /\ mon[m].pc = "deliver"
    /\ \E i \in 1..Len(status_callbacks) : status_callbacks[i] = o
    /\ status_callbacks' = RemoveFirst(status_callbacks, o)
    /\ UNCHANGED <<port, nhandles, calls, env, frame, ctl>>

\* ---- the modem and the serial line ----
Reply(k, c) == Line(k, NoNumber, "None", c.by)
Replies(c) ==
    {<<Reply("OK", c)>>, <<Reply("ERROR", c)>>}
    \cup IF c.cmd = "AT+CLCC"
         THEN {<<ClccLine("0", "0", "0", n, c.by), Reply("OK", c)>> : n \in Numbers}
         ELSE {}

\* the modem answers the oldest command it has not answered
ModemReply ==
    /\ tx # <<>>
    /\ opened # {}
    /\ \E r \in Replies(Head(tx)) : rx' = rx \o r
    /\ tx' = Tail(tx)
    /\ UNCHANGED <<port, status_callbacks, nhandles, calls, broken, emitted, frame, ctl>>

\* the modem emits one of the lines, unless it has emitted bound lines
Emit(lines, bound) ==
    /\ emitted < bound
    /\ opened # {}
    /\ \E l \in lines : rx' = Append(rx, l)
    /\ emitted' = emitted + 1
    /\ UNCHANGED <<port, status_callbacks, nhandles, calls, broken, tx, frame, ctl>>

\* the modem emits an unsolicited line
ModemNotify == Emit(Unsolicited, MaxEmit)

\* the modem emits a notification of a call
ModemNotifyCall == Emit(CallLines, MaxLines)

\* the modem emits RING or BUSY
ModemRings ==
    Emit({Line("RING", NoNumber, "None", "-"), Line("BUSY", NoNumber, "None", "-")},
         MaxLines)

\* ---- the modem's call list ----
DirCodes == {"0", "1", "2"}
StatCodes == {"0", "1", "2", "3", "4", "5", "6"}
MptyCodes == {"0", "1", "2"}
\* +CLCC records: every direction code, every status code, every mpty code with
\* and without number, and one record whose codes are all outside the tables
ClccRecords(re) ==
    {ClccLine(d, "0", "0", NoNumber, re) : d \in DirCodes}
    \cup {ClccLine("1", s, "0", NoNumber, re) : s \in StatCodes}
    \cup {ClccLine("0", "0", p, n, re) : p \in MptyCodes, n \in Numbers \cup {NoNumber}}
    \cup {ClccLine("2", "6", "2", NoNumber, re)}
\* a line that names +CLCC and does not match the regular expression
Malformed(re) == Line("+CLCC: ?", NoNumber, "None", re)

\* the modem answers AT+CLCC: no record, one record or a malformed one, then OK
ModemListsCalls ==
    /\ tx # <<>>
    /\ Head(tx).cmd = "AT+CLCC"
    /\ opened # {}
    /\ \E r \in {<<Reply("OK", Head(tx))>>,
                 <<Malformed(Head(tx).by), Reply("OK", Head(tx))>>}
                \cup {<<l, Reply("OK", Head(tx))>> : l \in ClccRecords(Head(tx).by)} :
            rx' = rx \o r
    /\ tx' = Tail(tx)
    /\ UNCHANGED <<port, status_callbacks, nhandles, calls, broken, emitted, frame, ctl>>

\* the modem emits a +CLCC line unasked
ModemNotifyClcc == Emit(ClccRecords("-") \cup {Malformed("-")}, MaxEmit)

\* the device behind an open handle fails (unplugged): its I/O raises from now on
TransportFails ==
    /\ \E h \in opened \ broken : broken' = broken \cup {h}
    /\ UNCHANGED <<port, status_callbacks, nhandles, calls, rx, tx, emitted, frame, ctl>>

\* ---- specifications ----
\* The steps a controller takes whether or not it is connected.
Common ==
    \/ \E t \in Callers :
        \/ \E e \in {"None", "OK"} : CallSend(t, e)
        \/ \E n \in DialInputs : DialRefused(t, n) \/ CallDial(t, n)
        \/ CallHangup(t) \/ CallAnswer(t) \/ CallGetCallStatus(t)
        \/ \E o \in Observers : register_status_callback(t, o)
        \/ \E o \in Observers : unregister_status_callback(t, o)
        \/ \E p \in Ports : CallConnect(t, p) \/ CallConnectSerial(t, p)
        \/ ConnectOpenFails(t) \/ ConnectOpens(t)
        \/ CallDisconnect(t) \/ JoinExited(t)
        \/ SendNotConnected(t)
    \/ ModemNotify
    \/ TransportFails

\* From construction is_connected is never set (line 64 is behind the guard of
\* line 103), so nothing is written and no monitor thread is started.
NextCold ==
    \/ Common
    \/ \E t \in Callers : ConnectNoPort(t)

Next ==
    \/ Common
    \/ \E t \in Callers :
        \/ JoinTimeout(t)
        \/ SendRaises(t) \/ SendWrite(t) \/ SendRead(t) \/ SendReadRaises(t)
        \/ SendTimeout(t)
    \/ \E m \in Threads :
        \/ MonStart(m) \/ MonExit(m) \/ MonRead(m) \/ MonRaises(m) \/ MonResume(m)
        \/ MonLine(m) \/ MonDelivered(m)
    \/ ModemReply

\* One caller of dial and send_dtmf on a connected controller whose modem
\* answers every command before the caller's timeout.
NextInput ==
    \/ \E n \in DialStrings : DialRefused("api", n) \/ CallDial("api", n)
    \/ \E d \in DtmfStrings : DtmfRefused("api", d) \/ CallSendDtmf("api", d)
    \/ SendWrite("api") \/ SendRead("api")
    \/ ModemReply

\* The monitor thread alone on a connected controller: no command is sent while
\* the modem emits the notifications of a call.
NextEvents ==
    \/ ModemNotifyCall
    \/ \E m \in Threads :
        MonStart(m) \/ MonRead(m) \/ MonLine(m) \/ MonDelivered(m)

\* get_call_status and the monitor thread on a modem that lists calls.
NextClcc ==
    \/ CallGetCallStatus("api")
    \/ SendWrite("api") \/ SendRead("api")
    \/ ModemListsCalls
    \/ ModemNotifyClcc
    \/ \E m \in Threads :
        MonStart(m) \/ MonRead(m) \/ MonLine(m) \/ MonDelivered(m)

\* The observers: the monitor thread dispatches events to observers that return,
\* raise, register and unregister, while the api thread registers and
\* unregisters.
NextObservers ==
    \/ \E o \in Observers :
        register_status_callback("api", o) \/ unregister_status_callback("api", o)
    \/ ModemRings
    \/ \E m \in Threads :
        \/ MonStart(m) \/ MonRead(m) \/ MonLine(m)
        \/ MonDelivered(m) \/ ObserverRaises(m)
        \/ \E o \in Observers : CallbackRegisters(m, o) \/ CallbackUnregisters(m, o)

\* The api thread connects and disconnects, over and over, while the monitor
\* thread reads what the modem sends.
NextConnect ==
    \/ \E p \in Ports : CallConnect("api", p) \/ CallConnectSerial("api", p)
    \/ CallDisconnect("api")
    \/ ConnectOpens("api")
    \/ SendNotConnected("api") \/ SendWrite("api") \/ SendRead("api")
    \/ JoinExited("api") \/ JoinTimeout("api")
    \/ ModemReply
    \/ ModemNotify
    \/ \E m \in Threads :
        \/ MonStart(m) \/ MonExit(m) \/ MonRead(m) \/ MonRaises(m) \/ MonResume(m)
        \/ MonLine(m) \/ MonDelivered(m)

Spec == Init /\ [][NextCold]_vars
SpecLive == InitLive /\ [][Next]_vars
SpecInput == InitLive /\ [][NextInput]_vars
SpecEvents == InitLive /\ [][NextEvents]_vars
SpecClcc == InitLive /\ [][NextClcc]_vars
SpecObservers == InitLive /\ [][NextObservers]_vars
SpecConnect == InitLive /\ [][NextConnect]_vars

\* ---- the claims ----
Returned(t, o) == frame[t].pc = "done" /\ frame[t].op = o
ReaderLoopRunning == \E m \in Threads : mon[m].pc \in {"loop", "lines", "deliver", "backoff"}
Terminal(text) == HasTok(text, "OK") \/ HasTok(text, "ERROR")
\* What a caller of send_command takes for failure: None, or text that is empty.
Failure(r) == ~Truthy(r)

\* C1: connect(port) on a disconnected controller, with a port that opens and a
\* modem that answers the "AT" handshake with "OK" (the handshake was never left
\* unanswered or answered otherwise), returns success, and then is_connected is
\* true and the reader loop is running.
C1_ConnectSucceeds ==
    \A t \in Callers :
        (/\ Returned(t, "connect")
         /\ ~frame[t].pre
         /\ frame[t].mine # 0
         /\ ~frame[t].exc
         /\ ~(frame[t].stage = "AT" /\ frame[t].sent))
        => (/\ frame[t].result = ResTrue
            /\ is_connected
            /\ monitoring
            /\ monitor_thread # 0)

\* C2: at most one command is outstanding at any instant (a second caller's
\* command is not written before the first caller's has resolved), and no caller
\* accumulates the reply to another caller's command.
C2_OneCommandOutstanding ==
    /\ Cardinality({t \in Callers : frame[t].pc = "wait"}) <= 1
    /\ \A t \in Callers : \A i \in 1..Len(frame[t].response) :
            frame[t].response[i].re \in {"-", t}

\* C3: while the reader loop is running, no command caller reads bytes from the
\* transport.
C3_SingleReader ==
    [][\A t \in Callers :
          (frame[t].pc = "wait" /\ frame'[t].response # frame[t].response)
          => ~ReaderLoopRunning]_vars

\* C4: a notification line that is waiting on the transport leaves it only into
\* the reader loop's buffer, from where the event parser gets it: sending a
\* command never discards or swallows it.
C4_NotificationsReachParser ==
    [][((\E i \in 1..Len(rx) : IsNotification(rx[i])) /\ Len(rx') < Len(rx))
       => \E m \in Threads : mon'[m].buffer = mon[m].buffer \o rx]_vars

\* C5: while an observer is being invoked with an event, the Call State Model
\* holds exactly the state that event's rule wrote.
C5_ObserverSeesRuleState ==
    \A m \in Threads :
        mon[m].pc = "deliver"
        => <<current_call_status, incoming_call_number>> = mon[m].snap

\* C6: send_command without an expected substring returns failure when the
\* terminal token is ERROR; it returns text only when the terminal token is OK.
C6_ErrorIsFailure ==
    \A t \in Callers :
        (/\ Returned(t, "send")
         /\ frame[t].expected = "None"
         /\ HasTok(frame[t].response, "ERROR")
         /\ ~HasTok(frame[t].response, "OK"))
        => Failure(frame[t].result)

\* C7: a send that was written and whose response holds no terminal token when
\* its timeout elapses returns failure, with or without an expected substring,
\* and leaves the controller connected.
C7_TimeoutIsFailure ==
    \A t \in Callers :
        (/\ Returned(t, "send")
         /\ frame[t].sent
         /\ ~frame[t].exc
         /\ ~Terminal(frame[t].response))
        => (Failure(frame[t].result) /\ is_connected)

\* C8: once a caller or the reader loop has caught the failure of the transport
\* the controller holds, the controller is no longer marked connected.
C8_TransportFailureDisconnects ==
    /\ \A t \in Callers :
          (frame[t].pc = "done" /\ frame[t].exc /\ serial_conn \in broken)
          => ~is_connected
    /\ \A m \in Threads :
          (mon[m].pc = "backoff" /\ serial_conn \in broken) => ~is_connected

\* C9: when connect() has returned failure, the transport it opened is closed,
\* the controller holds no transport handle, and is_connected is false.
C9_FailedConnectCleansUp ==
    \A t \in Callers :
        (Returned(t, "connect") /\ frame[t].result = ResFalse)
        => (/\ frame[t].mine \notin opened
            /\ serial_conn = 0
            /\ ~is_connected)

\* C10: at most one transport is open at any time.
C10_OneOpenTransport == Cardinality(opened) <= 1

\* C11: when disconnect() returns, the Call State Model is cleared: the current
\* call status is None and the remote number is None.
C11_DisconnectClearsCallState ==
    [][\A t \in Callers :
          (frame[t].pc = "join" /\ frame'[t].pc = "done")
          => (current_call_status' = "None" /\ incoming_call_number' = NoNumber)]_vars

\* A number as the claim wants it on the wire: digits, with at most one "+", first.
WellFormedNumber(s) ==
    \A i \in 1..Len(s) : s[i] \in DigitChars \/ (i = 1 /\ s[i] = "+")

\* C12: the number dial() transmits in the dial command consists only of digits
\* plus, optionally, one "+" in the first position.
C12_DialedNumberWellFormed ==
    \A i \in 1..Len(tx) : tx[i].cmd = "ATD" => WellFormedNumber(tx[i].arg)

\* C13: whenever the sanitized number is empty (the empty input, or an input with
\* no digit and no "+"), dial() writes nothing and returns failure.
C13_EmptyNumberNotDialed ==
    \A t \in Callers :
        (frame[t].op = "dial" /\ Sanitize(frame[t].input) = <<>>)
        => (/\ ~frame[t].sent
            /\ frame[t].pc = "done" => frame[t].result = ResFalse)

\* The inputs the claim says send_dtmf accepts.
AcceptedDtmf ==
    {<<c>> : c \in DigitChars \cup {"*", "#", "A", "B", "C", "D", "a", "b", "c", "d"}}

\* C14: on a connected controller send_dtmf(digit) writes its command if and only
\* if digit is one character of 0-9, *, #, A-D, a-d; for every other input it
\* returns False and nothing is written.
C14_DtmfWrittenIffValid ==
    \A t \in Callers :
        (frame[t].op = "send_dtmf" /\ frame[t].pc \in {"wait", "done"})
        => (/\ frame[t].sent <=> frame[t].input \in AcceptedDtmf
            /\ frame[t].input \notin AcceptedDtmf
               => (/\ frame[t].pc = "done"
                   /\ frame[t].result = ResFalse
                   /\ \A i \in 1..Len(tx) : tx[i].cmd # "AT+VTS"))
\* send_dtmf("a") has been written and answered, send_dtmf returned.
C14_LowerCaseWritten ==
    /\ Returned("api", "send_dtmf")
    /\ frame["api"].input = <<"a">>
    /\ frame["api"].sent
    /\ frame["api"].result = ResTrue

\* C15: the DTMF command written to the transport carries the upper-case letter:
\* no lower-case letter is transmitted.
C15_DtmfUpperCased ==
    \A i \in 1..Len(tx) : tx[i].cmd = "AT+VTS" => tx[i].arg = UpperStr(tx[i].arg)

\* The modem's OK to a command of caller t is in the text.
AnsweredOK(t, text) == \E i \in 1..Len(text) : text[i].k = "OK" /\ text[i].re = t

\* C16: when dial, answer or hangup returns, the Call State Model was changed if
\* and only if the modem answered that command with OK: then dial has set the
\* status to dialing, answer to active, and hangup has cleared status and remote
\* number; otherwise the return leaves status and remote number as they were.
C16_StateChangesIffAnsweredOK ==
    [][\A t \in Callers :
          (/\ frame[t].op \in {"dial", "answer", "hangup"}
           /\ frame[t].pc \in {"send", "wait"}
           /\ frame'[t].pc = "done")
          => IF AnsweredOK(t, frame'[t].response)
             THEN /\ frame[t].op = "dial" => current_call_status' = "dialing"
                  /\ frame[t].op = "answer" => current_call_status' = "active"
                  /\ frame[t].op = "hangup"
                     => (current_call_status' = "None" /\ incoming_call_number' = NoNumber)
             ELSE UNCHANGED <<current_call_status, incoming_call_number>>]_vars

\* Thread m processes the line at the head of its buffer in this step.
Processes(m) == mon[m].pc = "lines" /\ mon'[m] # mon[m]
\* In this step thread m starts the dispatch of event ev carrying number data.
Dispatches(m, ev, data) ==
    /\ mon'[m].pc = "deliver"
    /\ mon'[m].idx = 1
    /\ mon'[m].ev = ev
    /\ mon'[m].data = data
\* A dispatch invokes the observers one after the other and ends after the last.
DispatchedOnce(m) ==
    (mon[m].pc = "deliver" /\ mon'[m] # mon[m])
    => IF mon[m].idx < Len(status_callbacks)
       THEN mon'[m] = [mon[m] EXCEPT !.idx = @ + 1]
       ELSE mon'[m].pc # "deliver"

\* C17: processing RING dispatches one incoming_call event with the stored
\* number, sets the status to incoming and keeps the stored number; processing
\* +CLIP: "+15551234567",129 dispatches one incoming_call event carrying
\* +15551234567 without quotes and leaves status incoming and that number stored.
\* So RING then +CLIP gives two incoming_call events in that order, and a later
\* RING keeps the number.
C17_RingThenClip ==
    [][\A m \in Threads :
          /\ (Processes(m) /\ status_callbacks # <<>>)
             => LET l == Head(mon[m].buffer)
                IN  /\ l.k = "RING"
                       => (/\ current_call_status' = "incoming"
                           /\ incoming_call_number' = incoming_call_number
                           /\ Dispatches(m, "incoming_call", incoming_call_number))
                    /\ (l.k = "+CLIP" /\ l.n = Quoted(PlainNumber))
                       => (/\ current_call_status' = "incoming"
                           /\ incoming_call_number' = PlainNumber
                           /\ Dispatches(m, "incoming_call", PlainNumber))
          /\ DispatchedOnce(m)]_vars
\* A RING processed after the +CLIP line: its event carries the stripped number.
C17_LaterRingKeepsNumber ==
    \E m \in Threads :
        /\ mon[m].pc = "deliver"
        /\ mon[m].line = "RING"
        /\ mon[m].ev = "incoming_call"
        /\ mon[m].data = PlainNumber
        /\ current_call_status = "incoming"
        /\ incoming_call_number = PlainNumber

\* C18: processing a NO CARRIER line clears status and remote number and
\* dispatches call_ended once; processing a BUSY line clears the status and
\* dispatches call_busy once, whatever the call state was.
C18_TerminationClears ==
    [][\A m \in Threads :
          /\ (Processes(m) /\ status_callbacks # <<>>)
             => LET l == Head(mon[m].buffer)
                IN  /\ l.k = "NO CARRIER"
                       => (/\ current_call_status' = "None"
                           /\ incoming_call_number' = NoNumber
                           /\ Dispatches(m, "call_ended", NoNumber))
                    /\ l.k = "BUSY"
                       => (/\ current_call_status' = "None"
                           /\ Dispatches(m, "call_busy", NoNumber))
          /\ (mon[m].pc = "deliver" /\ mon[m].ev \in {"call_ended", "call_busy"})
             => DispatchedOnce(m)]_vars
\* BUSY processed while a caller's number was stored: call_busy is being
\* dispatched and the status is cleared.
C18_BusyAfterIncoming ==
    \E m \in Threads :
        /\ mon[m].pc = "deliver"
        /\ mon[m].line = "BUSY"
        /\ mon[m].ev = "call_busy"
        /\ current_call_status = "None"
        /\ incoming_call_number = PlainNumber

\* C19: after a +CLCC line is processed the status is the decoded status and the
\* remote number is the number parsed from the line, None when it has none.
C19_ClccReplacesCall ==
    [][\A m \in Threads :
          (Processes(m) /\ Head(mon[m].buffer).k = "+CLCC")
          => LET l == Head(mon[m].buffer)
             IN  /\ current_call_status' = status_map(l.st)
                 /\ incoming_call_number' =
                        IF l.n = NoNumber THEN NoNumber ELSE Strip(l.n)]_vars

\* C20: get_call_status on a response with +CLCC: 1,0,0,0,0,"+15551234567",129
\* returns status active, direction outgoing, mpty false and the number
\* +15551234567 without quotes.
C20_ClccNumberUnquoted ==
    \A t \in Callers :
        (/\ Returned(t, "get_call_status")
         /\ frame[t].result.v = "dict"
         /\ ClccIndex(frame[t].response) # 0)
        => LET l == frame[t].response[ClccIndex(frame[t].response)]
           IN  (l.dir = "0" /\ l.st = "0" /\ l.mpty = "0" /\ l.n = Quoted(PlainNumber))
               => frame[t].result.call =
                    [id |-> 1, direction |-> "outgoing", status |-> "active",
                     number |-> PlainNumber, mpty |-> FALSE]

\* The decoding the claim states, field by field.
ClaimedDirection(dir) ==
    IF dir = "0" THEN "outgoing" ELSE IF dir = "1" THEN "incoming" ELSE "unknown"
ClaimedStatus(st) ==
    IF st = "0" THEN "active" ELSE IF st = "1" THEN "held"
    ELSE IF st = "2" THEN "dialing" ELSE IF st = "3" THEN "ringing"
    ELSE IF st = "4" THEN "incoming" ELSE IF st = "5" THEN "waiting" ELSE "unknown"
ClaimedCall(l) ==
    [id |-> 1, direction |-> ClaimedDirection(l.dir), status |-> ClaimedStatus(l.st),
     number |-> l.n, mpty |-> (l.mpty = "1")]
\* The first +CLCC record of caller t's response.
FirstRecord(t) == frame[t].response[ClccIndex(frame[t].response)]

\* What get_call_status has returned to caller t is the claimed decoding of the
\* first record of its response.
DecodedForCaller(t) ==
    (/\ Returned(t, "get_call_status")
     /\ Truthy(SendResult(frame[t].expected, frame[t].response))
     /\ ClccIndex(frame[t].response) # 0)
    => frame[t].result = ResCall(ClaimedCall(FirstRecord(t)))

\* C21: every well-formed +CLCC record is parsed, by get_call_status and by the
\* notification rule, into a call: direction 0/1 is outgoing/incoming, status
\* 0..5 is active, held, dialing, ringing, incoming, waiting, any other code is
\* unknown, mpty is true exactly for "1", and a record without number has number
\* None.
C21_ClccDecoding ==
    [][/\ \A t \in Callers : DecodedForCaller(t)'
       /\ \A m \in Threads :
             (/\ Processes(m)
              /\ Head(mon[m].buffer).k = "+CLCC"
              /\ status_callbacks # <<>>)
             => LET l == Head(mon[m].buffer)
                IN  /\ Dispatches(m, "call_status", l.n)
                    /\ mon'[m].call = ClaimedCall(l)
                    /\ current_call_status' = ClaimedStatus(l.st)]_vars
\* get_call_status has returned a call whose status code (6) and direction code
\* (2) are not in the tables.
C21_UnknownCodes ==
    /\ Returned("api", "get_call_status")
    /\ frame["api"].result.v = "dict"
    /\ frame["api"].result.call.status = "unknown"
    /\ frame["api"].result.call.direction = "unknown"
    /\ frame["api"].result.call.number = NoNumber

\* C26: get_call_status and the notification rule decode +CLCC identically: the
\* dictionary of a call_status event is what get_call_status returns for the
\* same record, what get_call_status returns is what the notification rule
\* makes of the first record of the response, and get_call_status returns None
\* exactly when the response holds no well-formed +CLCC record.
C26_SameDecoding ==
    [][/\ \A m \in Threads :
             (/\ Processes(m)
              /\ Head(mon[m].buffer).k = "+CLCC"
              /\ status_callbacks # <<>>)
             => mon'[m].call = ParseClcc(Head(mon[m].buffer))
       /\ \A t \in Callers :
             (/\ frame[t].op = "get_call_status"
              /\ frame[t].pc = "wait"
              /\ frame'[t].pc = "done")
             => LET text == frame'[t].response
                IN  frame'[t].result =
                        IF ClccIndex(text) # 0
                        THEN ResCall(ParseClccLine(text[ClccIndex(text)]))
                        ELSE ResNone]_vars
\* A call_status event is being dispatched with the dictionary that
\* get_call_status has returned for the same record, number included.
C26_EventEqualsReturn ==
    \E m \in Threads :
        /\ mon[m].pc = "deliver"
        /\ mon[m].ev = "call_status"
        /\ Returned("api", "get_call_status")
        /\ frame["api"].result = ResCall(mon[m].call)
        /\ mon[m].call.number = Quoted(PlainNumber)
        /\ mon[m].call.mpty

InSeq(o, q) == \E i \in 1..Len(q) : q[i] = o
NoDuplicates(q) == \A i, j \in 1..Len(q) : i # j => q[i] # q[j]

\* C22: a dispatch invokes every registered observer once, in registration
\* order, whether or not an earlier observer raised: it starts with the first
\* observer; when the observer being invoked returns or raises and the registry
\* is as it was when the dispatch began, the next observer in registration order
\* is invoked, and after the last one the reader loop goes on with the lines it
\* still holds.
C22_EveryObserverOnce ==
    [][\A m \in Threads :
          /\ (/\ Processes(m)
              /\ Head(mon[m].buffer).k \in NotifyKinds
              /\ status_callbacks # <<>>)
             => (/\ mon'[m].pc = "deliver"
                 /\ mon'[m].began = status_callbacks
                 /\ mon'[m].invoked = <<status_callbacks[1]>>)
          /\ (/\ mon[m].pc = "deliver"
              /\ mon'[m] # mon[m]
              /\ status_callbacks = mon[m].began
              /\ mon[m].idx <= Len(mon[m].began)
              /\ mon[m].invoked = SubSeq(mon[m].began, 1, mon[m].idx))
             => IF mon[m].idx < Len(mon[m].began)
                THEN /\ mon'[m].pc = "deliver"
                     /\ mon'[m].ev = mon[m].ev
                     /\ mon'[m].invoked = SubSeq(mon[m].began, 1, mon[m].idx + 1)
                ELSE /\ mon'[m].pc = AfterLine(mon[m].buffer)
                     /\ mon'[m].buffer = mon[m].buffer]_vars
\* The second of two observers is being invoked after the first one raised, and
\* a further line waits in the buffer.
C22_SecondAfterRaise ==
    \E m \in Threads :
        /\ mon[m].pc = "deliver"
        /\ mon[m].began = status_callbacks
        /\ Len(status_callbacks) = 2
        /\ mon[m].invoked = status_callbacks
        /\ mon[m].caught = 1
        /\ mon[m].buffer # <<>>

\* C23: the registry never holds an observer twice; after register(o) it holds
\* o, after unregister(o) it does not hold o at all; so the list a dispatch
\* iterates over names each observer once.
C23_RegistrationIdempotent ==
    [][/\ NoDuplicates(status_callbacks')
       /\ \A t \in Callers :
             (frame'[t] # frame[t] /\ frame'[t].op = "register")
             => InSeq(frame'[t].cb, status_callbacks')
       /\ \A t \in Callers :
             (frame'[t] # frame[t] /\ frame'[t].op = "unregister")
             => ~InSeq(frame'[t].cb, status_callbacks')
       /\ \A m \in Threads :
             (Processes(m) /\ mon'[m].pc = "deliver") => NoDuplicates(mon'[m].began)]_vars
\* Observer 1, registered from the start, has been registered again: the registry
\* holds it once.
C23_RegisteredTwice ==
    /\ calls = 1
    /\ emitted = 0
    /\ Returned("api", "register")
    /\ frame["api"].cb = 1
    /\ status_callbacks = <<1>>

\* C28: when only observers change the registry (from inside their callbacks),
\* a dispatch that ends has invoked every observer that was registered when it
\* began and is still registered.
C28_NoObserverSkipped ==
    [][\A m \in Threads :
          (calls = 0 /\ mon[m].pc = "deliver" /\ mon'[m].pc # "deliver")
          => \A o \in Observers :
                (InSeq(o, mon[m].began) /\ InSeq(o, status_callbacks))
                => InSeq(o, mon[m].invoked)]_vars

\* C27: whenever the call status is none the stored remote number is none, and
\* a RING processed while the call status is none (the earlier call has ended,
\* no +CLIP of the new call yet) dispatches incoming_call with number none.
C27_NoStaleNumber ==
    [][/\ current_call_status' = "None" => incoming_call_number' = NoNumber
       /\ \A m \in Threads :
             (/\ Processes(m) /\ status_callbacks # <<>>
              /\ Head(mon[m].buffer).k = "RING"
              /\ current_call_status = "None")
             => Dispatches(m, "incoming_call", NoNumber)]_vars

\* C24: when disconnect() closes the transport, the reader loop has exited: no
\* monitor thread is in its loop, processing lines, dispatching or backing off
\* at the step that closes the port, also when the join's wait has expired.
C24_ClosedAfterLoopExited ==
    [][\A t \in Callers :
          (/\ frame[t].pc = "join" /\ frame'[t].pc # "join"
           /\ opened' # opened)
          => ~ReaderLoopRunning]_vars

\* C25: while connected, the lines waiting on the transport leave it only into
\* the reader loop's buffer, all of them and in arrival order; the loop hands
\* the parser the head of its buffer and keeps the rest in order, and takes no
\* further line while the events of a line are being dispatched.
C25_EveryLineParsedInOrder ==
    [][/\ (is_connected /\ Len(rx') < Len(rx))
          => \E m \in Threads : mon'[m].buffer = mon[m].buffer \o rx
       /\ \A m \in Threads :
             /\ Processes(m) => mon'[m].buffer = Tail(mon[m].buffer)
             /\ mon[m].pc = "deliver" => mon'[m].buffer = mon[m].buffer]_vars

\* The monitor threads that have been started and have not ended.
LiveLoops == {m \in Threads : mon[m].pc \notin {"unborn", "exited"}}
\* Thread m reads from the transport in this step.
Reads(m) == mon[m].pc = "loop" /\ mon'[m].pc = "lines"

=============================================================================
